---- MODULE Spec2Model ----
(***************************************************************************)
(* Model of the Atria Notes Hub catalog service                            *)
(* (src/src/supabase/functions/server/index.tsx): the REST handlers that   *)
(* read and write the key-value Catalog Store and the Blob Store behind    *)
(* the requireAuth middleware.                                             *)
(*                                                                         *)
(* One request is served at a time: a handler action takes the server from *)
(* pc = "idle" to pc = "done", recording the request it served (req) and   *)
(* the response it sent (resp); Respond returns to "idle".  A handler      *)
(* action is the whole handler: middleware, validation, every store call   *)
(* and the catch block.  Clock readings and upstream failures are inputs.  *)
(* pre and env are history variables: the stores the handler started from, *)
(* and the clock readings, the upstream failure and the scan order it met, *)
(* so that what a request changed can be read off the state after it.      *)
(*                                                                         *)
(* SpecConc is the same server with two requests in flight: a handler      *)
(* takes one step for each call it awaits (storage.upload, kv.get, kv.set, *)
(* storage.remove), its local variables are kept in procs, and the steps   *)
(* of the two handlers interleave as the event loop may run them.          *)
(*                                                                         *)
(* SpecFaults, SpecCrash and SpecSeq are the server with upstream failures  *)
(* during a delete, with the process stopping inside an upload, and with   *)
(* neither.  SpecClient is the browser: App (src/src/App.tsx) and the view *)
(* it renders, StudentPortal (src/unnamed/part_001) or AdminDashboard       *)
(* (src/unnamed/part_000); a handler that awaits takes one step up to the  *)
(* await and one when the awaited call settles, and what the server answers *)
(* is an input.                                                             *)
(*                                                                         *)
(* Strings are TLA+ strings and keys and paths are built by concatenation  *)
(* as the template literals of the source build them.  The Authorization   *)
(* header is kept as the list of its space-separated parts.  "" stands for *)
(* an absent or empty field (both are falsy in the source).                *)
(***************************************************************************)
EXTENDS Integers, Sequences, FiniteSets, TLC

VARIABLES
    kv,      \* the key-value store: a function from the stored keys to their values
    blobs,   \* the storage bucket: the set of paths that hold an object
    now,     \* the last reading of the clock (Date.now())
    pc,      \* "idle" (waiting for a request) or "done" (a response was sent)
    req,     \* the request served last
    resp,    \* the response sent last
    pre,     \* the stores as they were when the request served last arrived
    env,     \* what the environment did while it was served
    procs,   \* the handlers in flight when requests are served concurrently
    app,     \* the state of App in the browser
    view     \* the state of the view App renders

vars == <<kv, blobs, now, pc, req, resp, pre, env, procs, app, view>>

-----------------------------------------------------------------------------
(* Bounds of the model *)

MaxClock == 2      \* clock readings are 1..MaxClock
MaxFiles == 2      \* an upload is accepted while fewer objects and fewer records are stored

(* Program constants *)

NumModules == 5    \* notes: { module1: [], ..., module5: [] }

-----------------------------------------------------------------------------
(* Inputs *)

Departments == {"CSE"}
Semesters == {"3"}
Subjects == {"Data Structures", "Operating Systems"}
FileNames == {"exam.pdf"}
ContentTypes == {"previousYearPaper", "iaPaper", "notes", "syllabus"}
ModuleInputs == {"", "1", "5", "6"}
FileIds == {ToString(t) : t \in 1..MaxClock}

HAbsent == <<>>
HNoToken == <<"Bearer">>
HExpired == <<"Bearer", "expired">>
HAdmin == <<"Bearer", "tokAdmin">>
HOther == <<"Bearer", "tokStudent">>
Headers == {HAbsent, HNoToken, HExpired, HAdmin, HOther}

NoArgs ==
    [department |-> "", semester |-> "", subject |-> "", contentType |-> "",
     module |-> "", file |-> "", fileId |-> "", filePath |-> ""]

MkReq(op, auth, a) ==
    [op |-> op, auth |-> auth, department |-> a.department, semester |-> a.semester,
     subject |-> a.subject, contentType |-> a.contentType, module |-> a.module,
     file |-> a.file, fileId |-> a.fileId, filePath |-> a.filePath]

NoReq == MkReq("", HAbsent, NoArgs)

(* Path parameters of GET /content and DELETE /admin/delete are never empty. *)
KeyArgs ==
    {[NoArgs EXCEPT !.department = d, !.semester = s, !.subject = j] :
        d \in Departments, s \in Semesters, j \in Subjects}

SubjectArgsValid == KeyArgs
SubjectArgsMissing ==
    {[a EXCEPT !.department = ""] : a \in {CHOOSE k \in KeyArgs : TRUE}}
    \cup {[a EXCEPT !.semester = ""] : a \in {CHOOSE k \in KeyArgs : TRUE}}
    \cup {[a EXCEPT !.subject = ""] : a \in {CHOOSE k \in KeyArgs : TRUE}}
SubjectArgs == SubjectArgsValid \cup SubjectArgsMissing

(* The client sends a module only with notes (part_000:165-167); the notes *)
(* upload without a module, with a module outside 1..5, and an unknown     *)
(* content type are direct requests to the server.                         *)
UploadArgsValid ==
    {[k EXCEPT !.contentType = ct, !.module = m, !.file = f] :
        k \in KeyArgs, ct \in ContentTypes, m \in ModuleInputs, f \in FileNames}
BaseUploadArgs ==
    CHOOSE a \in UploadArgsValid : a.contentType = "previousYearPaper" /\ a.module = ""
UploadArgsMissing ==
    {[BaseUploadArgs EXCEPT !.file = ""], [BaseUploadArgs EXCEPT !.department = ""],
     [BaseUploadArgs EXCEPT !.semester = ""], [BaseUploadArgs EXCEPT !.subject = ""],
     [BaseUploadArgs EXCEPT !.contentType = ""]}
UploadArgs ==
    {a \in UploadArgsValid : a.contentType # "notes" => a.module = ""}
    \cup UploadArgsMissing

AdminDeleteArgs == {[k EXCEPT !.fileId = i] : k \in KeyArgs, i \in FileIds}
DeleteArgs == {[NoArgs EXCEPT !.fileId = i] : i \in FileIds}

(* The administrator's token is sent with every argument, the other headers *)
(* with one well-formed argument of each operation.                         *)
Requests(op, Args, rep) ==
    {MkReq(op, HAdmin, a) : a \in Args}
    \cup {MkReq(op, h, rep) : h \in Headers \ {HAdmin}}

-----------------------------------------------------------------------------
(* Values *)

ModuleKey(m) == "module" \o m
ModuleKeys == {ModuleKey(ToString(n)) : n \in 1..NumModules}
ModuleKeyOrder == [n \in 1..NumModules |-> ModuleKey(ToString(n))]

EmptyContent ==
    [previousYearPapers |-> <<>>, iaPapers |-> <<>>,
     notes |-> [k \in ModuleKeys |-> <<>>]]

SubjectsKey(d, s) == "subjects_" \o d \o "_" \o s
ContentKey(d, s, j) == "content_" \o d \o "_" \o s \o "_" \o j

IsoString(t) == "1970-01-01T00:00:00.00" \o ToString(t) \o "Z"

Response(status, error, user, body) ==
    [status |-> status, error |-> error, user |-> user, body |-> body]
NoResp == Response(0, "", "", <<>>)

NoFile == [id |-> "", name |-> "", path |-> "", uploadedAt |-> ""]

(* The handlers that can be in flight at once, and one that is not running: *)
(* pc is the call it awaits next, subjects, read, content and file are its  *)
(* local variables existingSubjects, the content as kv.get returned it,     *)
(* the content it is about to write and fileRecord or fileToDelete; order   *)
(* tells whether it wrote the catalog first (1) or second (2).              *)
ProcIds == {1, 2}

IdleProc ==
    [pc |-> "idle", req |-> NoReq, subjects |-> <<>>, read |-> EmptyContent,
     content |-> EmptyContent, file |-> NoFile, order |-> 0, fault |-> "none",
     resp |-> NoResp]

Out(store, bl, t, r) == [kv |-> store, blobs |-> bl, now |-> t, resp |-> r]

-----------------------------------------------------------------------------
(* The key-value store (kv_store.tsx): get, set and the prefix scan *)

KvHas(store, key) == key \in DOMAIN store

KvGetOr(store, key, dflt) == IF KvHas(store, key) THEN store[key] ELSE dflt

KvSet(store, key, value) ==
    [k \in DOMAIN store \cup {key} |-> IF k = key THEN value ELSE store[k]]

AllContentKeys ==
    {ContentKey(d, s, j) : d \in Departments, s \in Semesters, j \in Subjects}

(* The keys kv.getByPrefix('content_') returns items for. *)
KvContentItems(store) == DOMAIN store \cap AllContentKeys

(* The orders in which a scan can return the items of S. *)
ScanOrders(S) ==
    {f \in [1..Cardinality(S) -> S] : \A i, j \in 1..Cardinality(S) : i # j => f[i] # f[j]}

-----------------------------------------------------------------------------
(* requireAuth *)

AccessToken(h) == IF Len(h) >= 2 THEN h[2] ELSE ""

(* supabase.auth.getUser: the user a token belongs to, "" when it verifies none. *)
GetUser(token) ==
    CASE token = "tokAdmin" -> "dhanush"
      [] token = "tokStudent" -> "student"
      [] OTHER -> ""

(* RequireAuth taking any token that was sent, without asking whose it is. *)
RequireAuthUnverified(h) ==
    LET accessToken == AccessToken(h) IN
    IF accessToken = ""
    THEN [ok |-> FALSE, resp |-> Response(401, "No authorization token provided", "", <<>>)]
    ELSE [ok |-> TRUE, resp |-> Response(0, "", GetUser(accessToken), <<>>)]

RequireAuth(h) ==
    LET accessToken == AccessToken(h) IN
    IF accessToken = ""
    THEN [ok |-> FALSE, resp |-> Response(401, "No authorization token provided", "", <<>>)]
    ELSE LET user == GetUser(accessToken) IN
         IF user = ""
         THEN [ok |-> FALSE, resp |-> Response(401, "Unauthorized access attempt", "", <<>>)]
         ELSE [ok |-> TRUE, resp |-> Response(0, "", user, <<>>)]

-----------------------------------------------------------------------------
(* GET /content/:department/:semester/:subject *)

GetCatalog(store, d, s, j) == KvGetOr(store, ContentKey(d, s, j), EmptyContent)

(* GetContentHandler storing the default it answers with, as GET            *)
(* /content/structure does.                                                 *)
GetContentPersisting(store, bl, t, r, fault) ==
    IF fault = "kvContentGet"
    THEN Out(store, bl, t, Response(500, "Failed to fetch content", "", <<>>))
    ELSE LET key == ContentKey(r.department, r.semester, r.subject)
             content == GetCatalog(store, r.department, r.semester, r.subject)
         IN  Out(KvSet(store, key, content), bl, t, Response(200, "", "", <<content>>))

GetContentHandler(store, bl, t, r, fault) ==
    IF fault = "kvContentGet"
    THEN Out(store, bl, t, Response(500, "Failed to fetch content", "", <<>>))
    ELSE Out(store, bl, t,
             Response(200, "", "", <<GetCatalog(store, r.department, r.semester, r.subject)>>))

-----------------------------------------------------------------------------
(* POST /subjects *)

Includes(seq, x) == \E i \in 1..Len(seq) : seq[i] = x

MissingSubjectFields(r) == r.department = "" \/ r.semester = "" \/ r.subject = ""

(* SubjectAbsent without the membership test: the subject is always pushed. *)
SubjectAbsentAlways(existingSubjects, subject) == TRUE

(* SubjectAbsent with the test the wrong way round. *)
SubjectAbsentInverted(existingSubjects, subject) == Includes(existingSubjects, subject)

(* !existingSubjects.includes(subject) *)
SubjectAbsent(existingSubjects, subject) == ~Includes(existingSubjects, subject)

(* The subject registration both POST /subjects and the uploads run: ok is  *)
(* FALSE when a store call threw, kv is the store it leaves.                *)
RegisterSubject(store, d, s, j, fault) ==
    LET subjectsKey == SubjectsKey(d, s)
        existingSubjects == KvGetOr(store, subjectsKey, <<>>)
    IN  IF fault = "kvSubjectsGet" THEN [ok |-> FALSE, kv |-> store]
        ELSE IF ~SubjectAbsent(existingSubjects, j) THEN [ok |-> TRUE, kv |-> store]
        ELSE IF fault = "kvSubjectsSet" THEN [ok |-> FALSE, kv |-> store]
        ELSE [ok |-> TRUE, kv |-> KvSet(store, subjectsKey, Append(existingSubjects, j))]

AddSubjectHandler(store, bl, t, r, fault) ==
    IF MissingSubjectFields(r)
    THEN Out(store, bl, t, Response(400, "Missing required fields", "", <<>>))
    ELSE LET reg == RegisterSubject(store, r.department, r.semester, r.subject, fault) IN
         IF ~reg.ok
         THEN Out(reg.kv, bl, t,
                  Response(500, "Internal server error during subject addition", "", <<>>))
         ELSE Out(reg.kv, bl, t, Response(200, "", "", <<>>))

-----------------------------------------------------------------------------
(* POST /upload and POST /admin/upload (the two handlers are the same code) *)

(* MissingUploadFields without the test of contentType. *)
MissingUploadFieldsNoType(r) ==
    r.file = "" \/ r.department = "" \/ r.semester = "" \/ r.subject = ""

MissingUploadFields(r) ==
    r.file = "" \/ r.department = "" \/ r.semester = "" \/ r.subject = ""
    \/ r.contentType = ""

FileName(t, name) == ToString(t) \o "_" \o name

FilePath(r, t) ==
    r.department \o "/" \o r.semester \o "/" \o r.subject \o "/" \o r.contentType \o "/"
    \o (IF r.module # "" THEN ModuleKey(r.module) \o "/" ELSE "") \o FileName(t, r.file)

FileRecord(r, filePath, t) ==
    [id |-> ToString(t), name |-> r.file, path |-> filePath, uploadedAt |-> IsoString(t)]

(* StorageUploadError that does not see the error of a failed upload. *)
StorageUploadErrorIgnored(bl, filePath, fault) == filePath \in bl

(* storage.upload without upsert: an error when the upload fails or an     *)
(* object is already stored at the path.                                    *)
StorageUploadError(bl, filePath, fault) == fault = "storage" \/ filePath \in bl

(* PushRecord with the iaPaper branch pushing where the branch above it does. *)
PushRecordCopied(content, contentType, module, fileRecord) ==
    IF contentType = "previousYearPaper" \/ contentType = "iaPaper"
    THEN [ok |-> TRUE,
          content |-> [content EXCEPT !.previousYearPapers = Append(@, fileRecord)]]
    ELSE IF contentType = "notes" /\ module # ""
    THEN IF ModuleKey(module) \in DOMAIN content.notes
         THEN [ok |-> TRUE,
               content |-> [content EXCEPT !.notes[ModuleKey(module)] = Append(@, fileRecord)]]
         ELSE [ok |-> FALSE, content |-> content]
    ELSE [ok |-> TRUE, content |-> content]

(* PushRecord making the list of a module that notes does not have yet:    *)
(* (notes[key] ||= []).push(fileRecord).                                    *)
PushRecordCreatingKey(content, contentType, module, fileRecord) ==
    IF contentType = "previousYearPaper"
    THEN [ok |-> TRUE,
          content |-> [content EXCEPT !.previousYearPapers = Append(@, fileRecord)]]
    ELSE IF contentType = "iaPaper"
    THEN [ok |-> TRUE, content |-> [content EXCEPT !.iaPapers = Append(@, fileRecord)]]
    ELSE IF contentType = "notes" /\ module # ""
    THEN [ok |-> TRUE,
          content |->
              [content EXCEPT !.notes =
                  [k \in DOMAIN content.notes \cup {ModuleKey(module)} |->
                      IF k = ModuleKey(module)
                      THEN Append(IF k \in DOMAIN content.notes THEN content.notes[k]
                                  ELSE <<>>, fileRecord)
                      ELSE content.notes[k]]]]
    ELSE [ok |-> TRUE, content |-> content]

(* The push into the bucket the content type names: ok is FALSE when the   *)
(* push threw (notes[`module${module}`] is undefined).                      *)
PushRecord(content, contentType, module, fileRecord) ==
    IF contentType = "previousYearPaper"
    THEN [ok |-> TRUE,
          content |-> [content EXCEPT !.previousYearPapers = Append(@, fileRecord)]]
    ELSE IF contentType = "iaPaper"
    THEN [ok |-> TRUE, content |-> [content EXCEPT !.iaPapers = Append(@, fileRecord)]]
    ELSE IF contentType = "notes" /\ module # ""
    THEN IF ModuleKey(module) \in DOMAIN content.notes
         THEN [ok |-> TRUE,
               content |-> [content EXCEPT !.notes[ModuleKey(module)] = Append(@, fileRecord)]]
         ELSE [ok |-> FALSE, content |-> content]
    ELSE [ok |-> TRUE, content |-> content]

UploadError == Response(500, "Internal server error during file upload", "", <<>>)

(* tPath is the clock read for the file name, tId the later one for the id. *)
UploadHandler(store, bl, t, r, tPath, tId, fault) ==
    IF MissingUploadFields(r)
    THEN Out(store, bl, t, Response(400, "Missing required fields", "", <<>>))
    ELSE
    LET filePath == FilePath(r, tPath) IN
    IF StorageUploadError(bl, filePath, fault)
    THEN Out(store, bl, tPath, Response(500, "Failed to upload file", "", <<>>))
    ELSE
    LET bl1 == bl \cup {filePath}
        reg == RegisterSubject(store, r.department, r.semester, r.subject, fault)
    IN
    IF ~reg.ok THEN Out(reg.kv, bl1, tPath, UploadError)
    ELSE IF fault = "kvContentGet" THEN Out(reg.kv, bl1, tPath, UploadError)
    ELSE
    LET contentKey == ContentKey(r.department, r.semester, r.subject)
        existingContent == KvGetOr(reg.kv, contentKey, EmptyContent)
        fileRecord == FileRecord(r, filePath, tId)
        pushed == PushRecord(existingContent, r.contentType, r.module, fileRecord)
    IN
    IF ~pushed.ok THEN Out(reg.kv, bl1, tId, UploadError)
    ELSE IF fault = "kvContentSet" THEN Out(reg.kv, bl1, tId, UploadError)
    ELSE Out(KvSet(reg.kv, contentKey, pushed.content), bl1, tId,
             Response(200, "", "", <<fileRecord>>))

-----------------------------------------------------------------------------
(* POST /download and GET /download/:filePath *)

SignedUrlExpiry == 3600    \* createSignedUrl(filePath, 3600)

(* A path parameter decodeURIComponent throws a URIError on, one with an   *)
(* escape sequence, and what the escape sequence decodes to.               *)
MalformedParam == "100%.pdf"
EscapedParam == "missing%2Epdf"
MissingPath == "missing.pdf"

(* decodeURIComponent on the parameters of the model: ok is FALSE when it  *)
(* throws; a parameter without an escape sequence is returned as it is.    *)
DecodeURIComponent(s) ==
    IF s = MalformedParam THEN [ok |-> FALSE, value |-> ""]
    ELSE IF s = EscapedParam THEN [ok |-> TRUE, value |-> MissingPath]
    ELSE [ok |-> TRUE, value |-> s]

(* The URL storage signs: it names the object and carries the expiry asked *)
(* for and the time it was issued at.                                       *)
SignedUrl(path, expiresIn, t) == [path |-> path, expiresIn |-> expiresIn, issuedAt |-> t]

(* createSignedUrl answers with an error when no object is stored at the path. *)
CreateSignedUrlError(bl, path, fault) == fault = "storage" \/ path \notin bl

DownloadError == Response(500, "Internal server error during download URL creation", "", <<>>)

(* SignUrl keeping the URL it got in the key-value store and answering     *)
(* with the stored one when there is one.                                   *)
SignUrlCaching(store, bl, t, filePath, tSign, fault) ==
    LET urlKey == "url_" \o filePath IN
    IF KvHas(store, urlKey) THEN Out(store, bl, t, Response(200, "", "", <<store[urlKey]>>))
    ELSE IF CreateSignedUrlError(bl, filePath, fault)
    THEN Out(store, bl, tSign, Response(500, "Failed to create download URL", "", <<>>))
    ELSE LET url == SignedUrl(filePath, SignedUrlExpiry, tSign) IN
         Out(KvSet(store, urlKey, url), bl, tSign, Response(200, "", "", <<url>>))

(* The body both download handlers share: ask storage for a signed URL of  *)
(* filePath; tSign is the time at which storage issues it.                  *)
SignUrl(store, bl, t, filePath, tSign, fault) ==
    IF CreateSignedUrlError(bl, filePath, fault)
    THEN Out(store, bl, tSign, Response(500, "Failed to create download URL", "", <<>>))
    ELSE Out(store, bl, tSign,
             Response(200, "", "", <<SignedUrl(filePath, SignedUrlExpiry, tSign)>>))

DownloadHandler(store, bl, t, r, tSign, fault) ==
    SignUrl(store, bl, t, r.filePath, tSign, fault)

DownloadGetHandler(store, bl, t, r, tSign, fault) ==
    LET filePath == DecodeURIComponent(r.filePath) IN
    IF ~filePath.ok THEN Out(store, bl, t, DownloadError)
    ELSE SignUrl(store, bl, t, filePath.value, tSign, fault)

-----------------------------------------------------------------------------
(* DELETE /admin/delete/... and DELETE /delete/:fileId *)

HasId(seq, fileId) == \E i \in 1..Len(seq) : seq[i].id = fileId

FirstWithId(seq, fileId) ==
    seq[CHOOSE i \in 1..Len(seq) :
            seq[i].id = fileId /\ \A k \in 1..(i - 1) : seq[k].id # fileId]

WithoutId(seq, fileId) == SelectSeq(seq, LAMBDA p : p.id # fileId)

(* RemoveFile searching the notes modules before the two lists of papers. *)
RemoveFileNotesFirst(content, fileId) ==
    LET hits == {n \in 1..NumModules :
                    /\ ModuleKeyOrder[n] \in DOMAIN content.notes
                    /\ HasId(content.notes[ModuleKeyOrder[n]], fileId)}
    IN  IF hits # {}
        THEN LET module == ModuleKeyOrder[CHOOSE n \in hits : \A k \in hits : n <= k] IN
             [found |-> TRUE, file |-> FirstWithId(content.notes[module], fileId),
              content |-> [content EXCEPT !.notes[module] = WithoutId(@, fileId)]]
        ELSE IF HasId(content.previousYearPapers, fileId)
        THEN [found |-> TRUE, file |-> FirstWithId(content.previousYearPapers, fileId),
              content |-> [content EXCEPT !.previousYearPapers = WithoutId(@, fileId)]]
        ELSE IF HasId(content.iaPapers, fileId)
        THEN [found |-> TRUE, file |-> FirstWithId(content.iaPapers, fileId),
              content |-> [content EXCEPT !.iaPapers = WithoutId(@, fileId)]]
        ELSE [found |-> FALSE, file |-> NoFile, content |-> content]

(* The search of the buckets in the order previousYearPapers, iaPapers,    *)
(* Object.keys(notes): found, the record found first, the content without  *)
(* the records of that bucket that have the id.                            *)
RemoveFile(content, fileId) ==
    IF HasId(content.previousYearPapers, fileId)
    THEN [found |-> TRUE, file |-> FirstWithId(content.previousYearPapers, fileId),
          content |-> [content EXCEPT !.previousYearPapers = WithoutId(@, fileId)]]
    ELSE IF HasId(content.iaPapers, fileId)
    THEN [found |-> TRUE, file |-> FirstWithId(content.iaPapers, fileId),
          content |-> [content EXCEPT !.iaPapers = WithoutId(@, fileId)]]
    ELSE
    LET hits == {n \in 1..NumModules :
                    /\ ModuleKeyOrder[n] \in DOMAIN content.notes
                    /\ HasId(content.notes[ModuleKeyOrder[n]], fileId)}
    IN  IF hits = {} THEN [found |-> FALSE, file |-> NoFile, content |-> content]
        ELSE LET module == ModuleKeyOrder[CHOOSE n \in hits : \A k \in hits : n <= k] IN
             [found |-> TRUE, file |-> FirstWithId(content.notes[module], fileId),
              content |-> [content EXCEPT !.notes[module] = WithoutId(@, fileId)]]

DeleteError == Response(500, "Internal server error during file deletion", "", <<>>)

(* DeleteFound answering the error of storage.remove instead of logging it. *)
DeleteFoundSurfacing(store, bl, t, contentKey, removed, fault) ==
    IF fault = "storage"
    THEN Out(store, bl, t, Response(500, "Failed to delete file", "", <<>>))
    ELSE IF fault = "kvContentSet" THEN Out(store, bl \ {removed.file.path}, t, DeleteError)
    ELSE Out(KvSet(store, contentKey, removed.content), bl \ {removed.file.path}, t,
             Response(200, "", "", <<>>))

(* DeleteFound writing the content first and removing the object only once *)
(* the write went through.                                                  *)
DeleteFoundWriteFirst(store, bl, t, contentKey, removed, fault) ==
    IF fault = "kvContentSet" THEN Out(store, bl, t, DeleteError)
    ELSE Out(KvSet(store, contentKey, removed.content),
             IF fault = "storage" THEN bl ELSE bl \ {removed.file.path}, t,
             Response(200, "", "", <<>>))

(* The end of both delete handlers once the record is found: remove the    *)
(* object (an error is only logged), write the content, answer.            *)
DeleteFound(store, bl, t, contentKey, removed, fault) ==
    LET bl1 == IF fault = "storage" THEN bl ELSE bl \ {removed.file.path} IN
    IF fault = "kvContentSet" THEN Out(store, bl1, t, DeleteError)
    ELSE Out(KvSet(store, contentKey, removed.content), bl1, t, Response(200, "", "", <<>>))

(* AdminDeleteHandler reading the content with a default and writing it    *)
(* back before it answers that the file was not found.                      *)
AdminDeleteWritingBack(store, bl, t, r, fault) ==
    LET contentKey == ContentKey(r.department, r.semester, r.subject) IN
    IF fault = "kvContentGet" THEN Out(store, bl, t, DeleteError)
    ELSE
    LET removed == RemoveFile(KvGetOr(store, contentKey, EmptyContent), r.fileId) IN
    IF ~removed.found
    THEN Out(KvSet(store, contentKey, removed.content), bl, t,
             Response(404, "File not found", "", <<>>))
    ELSE DeleteFound(store, bl, t, contentKey, removed, fault)

AdminDeleteHandler(store, bl, t, r, fault) ==
    LET contentKey == ContentKey(r.department, r.semester, r.subject) IN
    IF fault = "kvContentGet" THEN Out(store, bl, t, DeleteError)
    ELSE IF ~KvHas(store, contentKey)
    THEN Out(store, bl, t, Response(404, "Content not found", "", <<>>))
    ELSE
    LET removed == RemoveFile(store[contentKey], r.fileId) IN
    IF ~removed.found
    THEN Out(store, bl, t, Response(404, "File not found", "", <<>>))
    ELSE DeleteFound(store, bl, t, contentKey, removed, fault)

(* DeleteHandler going through all the items and deleting from the one    *)
(* that matched last, without the return inside the loop.                  *)
DeleteHandlerLastHit(store, bl, t, r, scan, fault) ==
    IF fault = "kvContentGet" THEN Out(store, bl, t, DeleteError)
    ELSE
    LET hits == {i \in 1..Len(scan) : RemoveFile(store[scan[i]], r.fileId).found} IN
    IF hits = {}
    THEN Out(store, bl, t, Response(404, "File not found", "", <<>>))
    ELSE LET contentKey == scan[CHOOSE i \in hits : \A k \in hits : i >= k] IN
         DeleteFound(store, bl, t, contentKey, RemoveFile(store[contentKey], r.fileId), fault)

(* scan is the order in which kv.getByPrefix returned the items. *)
DeleteHandler(store, bl, t, r, scan, fault) ==
    IF fault = "kvContentGet" THEN Out(store, bl, t, DeleteError)
    ELSE
    LET hits == {i \in 1..Len(scan) : RemoveFile(store[scan[i]], r.fileId).found} IN
    IF hits = {}
    THEN Out(store, bl, t, Response(404, "File not found", "", <<>>))
    ELSE LET contentKey == scan[CHOOSE i \in hits : \A k \in hits : i <= k] IN
         DeleteFound(store, bl, t, contentKey, RemoveFile(store[contentKey], r.fileId), fault)

-----------------------------------------------------------------------------
(* The client: App (App.tsx), StudentPortal (part_001) and AdminDashboard   *)
(* (part_000).  The server is the client's environment: what a request is   *)
(* answered with, and when, are inputs.                                      *)

MaxFetches == 2    \* catalog fetches a mounted view issues
MaxLogouts == 2    \* handleAdminLogout calls in flight

(* adminToken: null, the empty string, or a token. *)
NullToken == "null"
Truthy(token) == token \notin {NullToken, ""}

(* useState('student'), useState(null), useState(true); session tells       *)
(* whether checkAdminSession is still awaiting, logouts and logins count the *)
(* handleAdminLogout and handleLogin calls awaiting, ended names the handler *)
(* that ran to its end in the last step of App.                              *)
InitApp ==
    [currentPage |-> "student", adminToken |-> NullToken, isLoading |-> TRUE,
     session |-> "pending", logouts |-> 0, logins |-> 0, ended |-> ""]

(* What App returns: the loading screen, AdminLogin, AdminDashboard or StudentPortal. *)
Rendered(a) ==
    IF a.isLoading THEN "loading"
    ELSE IF a.currentPage = "admin-login" THEN "admin-login"
    ELSE IF a.currentPage = "admin-dashboard" /\ Truthy(a.adminToken) THEN "admin-dashboard"
    ELSE "student"

(* Two of the departments, two of the semesters and, of each department,    *)
(* two of the subjects of subjectMap.                                        *)
ClientDepartments == {"CSE", "ECE"}
ClientSemesters == {"3", "4"}
ClientContentTypes == {"previousYearPaper", "notes"}
ClientModules == {"1"}

GetSubjects(department) ==
    IF department = "CSE" THEN <<"Mathematics", "Data Structures">>
    ELSE IF department = "ECE" THEN <<"Mathematics", "Circuit Analysis">>
    ELSE <<>>

Triple(d, s, j) == [department |-> d, semester |-> s, subject |-> j]
NoTriple == Triple("", "", "")

(* contentStructure: null, or the data of a response; of and gen tell which *)
(* fetch the data came with (the program keeps neither).                     *)
NullContent == [set |-> FALSE, of |-> NoTriple, gen |-> 0, data |-> EmptyContent]

(* What the views put in place of a catalog when the fetch failed. *)
FallbackContent ==
    [previousYearPapers |-> <<>>, iaPapers |-> <<>>, notes |-> [k \in {} |-> <<>>]]

(* The catalogs the server answers a fetch with: the empty one, or one paper. *)
ServedFile ==
    [id |-> "1", name |-> "exam.pdf", path |-> "previousYearPaper/1_exam.pdf",
     uploadedAt |-> IsoString(1)]
ServedCatalogs ==
    {EmptyContent, [EmptyContent EXCEPT !.previousYearPapers = <<ServedFile>>]}

(* A view that was just mounted; kind is "student", "admin", or "none" when *)
(* App renders neither.  pending are the fetches of the catalog in flight,  *)
(* issued counts them, ops are the uploads and deletes in flight with the   *)
(* selection their handler closed over.                                      *)
InitView(kind) ==
    [kind |-> kind, selectedDepartment |-> "", selectedSemester |-> "",
     selectedSubject |-> "", selectedContentType |-> "", selectedModule |-> "",
     contentStructure |-> NullContent, loading |-> FALSE, uploading |-> FALSE,
     message |-> "", pending |-> {}, issued |-> 0, ops |-> {}]

NoView == InitView("none")

ViewOf(rendered) ==
    IF rendered = "student" THEN InitView("student")
    ELSE IF rendered = "admin-dashboard" THEN InitView("admin")
    ELSE NoView

Selection(v) == Triple(v.selectedDepartment, v.selectedSemester, v.selectedSubject)

AllSelected(v) ==
    v.selectedDepartment # "" /\ v.selectedSemester # "" /\ v.selectedSubject # ""

(* fetchContent answering whatever fetch is the newest of the view instead  *)
(* of sending a request of its own.                                          *)
FetchContentShared(v, by, t) ==
    IF v.pending # {} THEN v
    ELSE [v EXCEPT !.loading = IF v.kind = "student" THEN TRUE ELSE @,
                   !.issued = @ + 1,
                   !.pending = @ \cup {[gen |-> v.issued + 1, by |-> by, of |-> t]}]

(* fetchContent called from a closure whose selection is t: StudentPortal   *)
(* sets loading, both send GET /content/t.  by tells the caller.            *)
FetchContent(v, by, t) ==
    [v EXCEPT !.loading = IF v.kind = "student" THEN TRUE ELSE @,
              !.issued = @ + 1,
              !.pending = @ \cup {[gen |-> v.issued + 1, by |-> by, of |-> t]}]

(* useEffect(..., [selectedDepartment, selectedSemester, selectedSubject]) *)
SelectionEffect(v) ==
    IF AllSelected(v) THEN FetchContent(v, "effect", Selection(v))
    ELSE [v EXCEPT !.contentStructure = NullContent]

(* SetSelectedDepartment clearing the fields that depend on the department. *)
SetSelectedDepartmentResetting(v, department) ==
    SelectionEffect([v EXCEPT !.selectedDepartment = department, !.selectedSubject = "",
                              !.selectedContentType = "", !.selectedModule = ""])

(* onValueChange={setSelectedDepartment} and the effect of the render after it. *)
SetSelectedDepartment(v, department) ==
    SelectionEffect([v EXCEPT !.selectedDepartment = department])

SetSelectedSemester(v, semester) == SelectionEffect([v EXCEPT !.selectedSemester = semester])

SetSelectedSubject(v, subject) == SelectionEffect([v EXCEPT !.selectedSubject = subject])

(* FetchSettled dropping a response that is not for the current selection. *)
FetchSettledCurrentOnly(v, f, outcome, data) ==
    IF f.of # Selection(v)
    THEN [v EXCEPT !.pending = @ \ {f},
                   !.loading = IF v.kind = "student" THEN FALSE ELSE @]
    ELSE [v EXCEPT !.contentStructure =
                       [set |-> TRUE, of |-> f.of, gen |-> f.gen,
                        data |-> IF outcome = "ok" THEN data ELSE FallbackContent],
                   !.loading = IF v.kind = "student" THEN FALSE ELSE @,
                   !.pending = @ \ {f}]

(* The rest of fetchContent once the fetch f is answered: outcome is "ok"   *)
(* (response.ok, with data), "notOk" or "throws"; StudentPortal clears      *)
(* loading in its finally block.                                             *)
FetchSettled(v, f, outcome, data) ==
    [v EXCEPT !.contentStructure =
                  [set |-> TRUE, of |-> f.of, gen |-> f.gen,
                   data |-> IF outcome = "ok" THEN data ELSE FallbackContent],
              !.loading = IF v.kind = "student" THEN FALSE ELSE @,
              !.pending = @ \ {f}]

(* handleFileUpload up to its fetch: the messages of its two checks, or the *)
(* request in flight with the selection of its closure.                     *)
HandleFileUpload(v) ==
    IF ~AllSelected(v) \/ v.selectedContentType = ""
    THEN [v EXCEPT !.message =
            "Please select department, semester, subject, and content type before uploading."]
    ELSE IF v.selectedContentType = "notes" /\ v.selectedModule = ""
    THEN [v EXCEPT !.message = "Please select a module for notes upload."]
    ELSE [v EXCEPT !.uploading = TRUE, !.message = "",
                   !.ops = @ \cup {[op |-> "upload", of |-> Selection(v)]}]

(* handleDeleteFile up to its fetch. *)
HandleDeleteFile(v) == [v EXCEPT !.ops = @ \cup {[op |-> "delete", of |-> Selection(v)]}]

(* The rest of handleFileUpload or handleDeleteFile once the request o is   *)
(* answered: on response.ok the message and fetchContent() of the handler's *)
(* closure, else the message of the failure; the upload clears uploading.   *)
OpSettled(v, o, outcome) ==
    LET done == [v EXCEPT !.ops = @ \ {o},
                          !.uploading = IF o.op = "upload" THEN FALSE ELSE @]
    IN  IF outcome = "ok"
        THEN FetchContent([done EXCEPT !.message =
                               IF o.op = "upload" THEN "File uploaded successfully!"
                               ELSE "File deleted successfully!"],
                          "refresh", o.of)
        ELSE [done EXCEPT !.message = IF o.op = "upload" THEN "Upload failed" ELSE "Delete failed"]

(* checkAdminSession once Promise.race settled: with a session, with none,  *)
(* with the rejection of getSession or with the timeout.                     *)
CheckAdminSession(a, outcome, accessToken) ==
    LET found == IF outcome = "session" /\ accessToken # ""
                 THEN [a EXCEPT !.adminToken = accessToken, !.currentPage = "admin-dashboard"]
                 ELSE a
    IN  [found EXCEPT !.isLoading = FALSE, !.session = "settled",
                      !.ended = "checkAdminSession"]

HandleAdminLogin(a, token) ==
    [a EXCEPT !.adminToken = token, !.currentPage = "admin-dashboard",
              !.ended = "handleAdminLogin"]

(* HandleAdminLogout staying logged in when signOut did not resolve. *)
HandleAdminLogoutStrict(a, outcome) ==
    IF outcome = "resolves"
    THEN [a EXCEPT !.adminToken = NullToken, !.currentPage = "student",
                   !.logouts = @ - 1, !.ended = "handleAdminLogout"]
    ELSE [a EXCEPT !.logouts = @ - 1, !.ended = "handleAdminLogout"]

(* handleAdminLogout once Promise.race settled: the try and the catch      *)
(* block make the same two calls.                                            *)
HandleAdminLogout(a, outcome) ==
    [a EXCEPT !.adminToken = NullToken, !.currentPage = "student",
              !.logouts = @ - 1, !.ended = "handleAdminLogout"]

-----------------------------------------------------------------------------
(* The server *)

NoFaults == {"none"}
StorageFaults == {"none", "storage"}
AllFaults ==
    {"none", "storage", "kvSubjectsGet", "kvSubjectsSet", "kvContentGet", "kvContentSet"}

SubjectRep == CHOOSE a \in SubjectArgsValid : TRUE
AdminDeleteRep == CHOOSE a \in AdminDeleteArgs : TRUE
DeleteRep == CHOOSE a \in DeleteArgs : TRUE

NoPre == [kv |-> <<>>, blobs |-> {}]

Env(fault, tPath, tId, scan) ==
    [fault |-> fault, tPath |-> tPath, tId |-> tId, scan |-> scan]
NoEnv == Env("none", 0, 0, <<>>)

(* The number of file records the store holds. *)
RecordCount(content) ==
    Len(content.previousYearPapers) + Len(content.iaPapers)
    + Len(content.notes["module1"]) + Len(content.notes["module2"])
    + Len(content.notes["module3"]) + Len(content.notes["module4"])
    + Len(content.notes["module5"])

RECURSIVE SumRecords(_, _)
SumRecords(store, keys) ==
    IF keys = {} THEN 0
    ELSE LET k == CHOOSE x \in keys : TRUE IN
         RecordCount(store[k]) + SumRecords(store, keys \ {k})

TotalRecords(store) == SumRecords(store, KvContentItems(store))

Init ==
    /\ kv = <<>>
    /\ blobs = {}
    /\ now = 1
    /\ pc = "idle"
    /\ req = NoReq
    /\ resp = NoResp
    /\ pre = NoPre
    /\ env = NoEnv
    /\ procs = [p \in ProcIds |-> IdleProc]
    /\ app = InitApp
    /\ view = NoView

(* The handler answered r with out.resp, leaving the stores of out; user is *)
(* the principal requireAuth attached to the request.                       *)
Serve(r, user, e, out) ==
    /\ pc' = "done"
    /\ env' = e
    /\ req' = r
    /\ resp' = [out.resp EXCEPT !.user = user]
    /\ kv' = out.kv
    /\ blobs' = out.blobs
    /\ now' = out.now
    /\ pre' = [kv |-> kv, blobs |-> blobs]
    /\ UNCHANGED <<procs, app, view>>

Reject(r, response) == Serve(r, "", NoEnv, Out(kv, blobs, now, response))

GetContentWith(Faults) ==
    /\ pc = "idle"
    /\ \E a \in KeyArgs, fault \in Faults :
          Serve(MkReq("getContent", HAbsent, a), "", Env(fault, 0, 0, <<>>),
                GetContentHandler(kv, blobs, now, MkReq("getContent", HAbsent, a), fault))

AddSubjectWith(Faults) ==
    /\ pc = "idle"
    /\ \E r \in Requests("addSubject", SubjectArgs, SubjectRep) :
          LET auth == RequireAuth(r.auth) IN
          IF ~auth.ok THEN Reject(r, auth.resp)
          ELSE IF MissingSubjectFields(r)
          THEN Serve(r, auth.resp.user, NoEnv, AddSubjectHandler(kv, blobs, now, r, "none"))
          ELSE \E fault \in Faults :
                  Serve(r, auth.resp.user, Env(fault, 0, 0, <<>>),
                        AddSubjectHandler(kv, blobs, now, r, fault))

(* The upload handlers serving one of the requests Reqs. *)
UploadOf(Reqs, Faults) ==
    /\ pc = "idle"
    /\ \E r \in Reqs :
          LET auth == RequireAuth(r.auth) IN
          IF ~auth.ok THEN Reject(r, auth.resp)
          ELSE IF MissingUploadFields(r)
          THEN Serve(r, auth.resp.user, NoEnv,
                     UploadHandler(kv, blobs, now, r, now, now, "none"))
          ELSE /\ Cardinality(blobs) < MaxFiles
               /\ TotalRecords(kv) < MaxFiles
               /\ \E tPath \in now..MaxClock, fault \in Faults :
                     \E tId \in tPath..MaxClock :
                        LET out == UploadHandler(kv, blobs, now, r, tPath, tId, fault) IN
                        \* tId is a reading only when the handler came to read it
                        /\ out.now = tId
                        /\ Serve(r, auth.resp.user, Env(fault, tPath, tId, <<>>), out)

UploadWith(op, Faults) == UploadOf(Requests(op, UploadArgs, BaseUploadArgs), Faults)

AdminDeleteOf(Reqs, Faults) ==
    /\ pc = "idle"
    /\ \E r \in Reqs :
          LET auth == RequireAuth(r.auth) IN
          IF ~auth.ok THEN Reject(r, auth.resp)
          ELSE \E fault \in Faults :
                  Serve(r, auth.resp.user, Env(fault, 0, 0, <<>>),
                        AdminDeleteHandler(kv, blobs, now, r, fault))

AdminDeleteWith(Faults) ==
    AdminDeleteOf(Requests("adminDelete", AdminDeleteArgs, AdminDeleteRep), Faults)

DeleteOf(Reqs, Faults) ==
    /\ pc = "idle"
    /\ \E r \in Reqs :
          LET auth == RequireAuth(r.auth) IN
          IF ~auth.ok THEN Reject(r, auth.resp)
          ELSE \E fault \in Faults, scan \in ScanOrders(KvContentItems(kv)) :
                  Serve(r, auth.resp.user, Env(fault, 0, 0, scan),
                        DeleteHandler(kv, blobs, now, r, scan, fault))

DeleteWith(Faults) == DeleteOf(Requests("delete", DeleteArgs, DeleteRep), Faults)

(* The download routes have no middleware: the header is not looked at. *)
DownloadHeaders == {HAbsent, HExpired}

DownloadWith(Faults) ==
    /\ pc = "idle"
    /\ \E h \in DownloadHeaders, filePath \in blobs \cup {MissingPath, ""},
          tSign \in now..MaxClock, fault \in Faults :
          LET r == MkReq("download", h, [NoArgs EXCEPT !.filePath = filePath]) IN
          Serve(r, "", Env(fault, tSign, 0, <<>>),
                DownloadHandler(kv, blobs, now, r, tSign, fault))

DownloadGetWith(Faults) ==
    /\ pc = "idle"
    /\ \E h \in DownloadHeaders, filePath \in blobs \cup {EscapedParam, MalformedParam},
          tSign \in now..MaxClock, fault \in Faults :
          LET r == MkReq("downloadGet", h, [NoArgs EXCEPT !.filePath = filePath])
              out == DownloadGetHandler(kv, blobs, now, r, tSign, fault)
          IN  \* tSign is a reading only when storage was asked
              /\ out.now = tSign \/ tSign = now
              /\ Serve(r, "", Env(fault, tSign, 0, <<>>), out)

Respond ==
    /\ pc = "done"
    /\ pc' = "idle"
    /\ req' = NoReq
    /\ resp' = NoResp
    /\ pre' = NoPre
    /\ env' = NoEnv
    /\ UNCHANGED <<kv, blobs, now, procs, app, view>>

(* The server with a key-value store that answers every call; the storage  *)
(* bucket may refuse an upload.                                             *)
GetContent == GetContentWith(NoFaults)
AddSubject == AddSubjectWith(NoFaults)
Upload == UploadWith("upload", StorageFaults)
AdminUpload == UploadWith("adminUpload", StorageFaults)
AdminDelete == AdminDeleteWith(NoFaults)
Delete == DeleteWith(NoFaults)
Download == DownloadWith(NoFaults)
DownloadGet == DownloadGetWith(NoFaults)

Next ==
    \/ GetContent
    \/ AddSubject
    \/ Upload
    \/ AdminUpload
    \/ AdminDelete
    \/ Delete
    \/ Download
    \/ DownloadGet
    \/ Respond

Spec == Init /\ [][Next]_vars

-----------------------------------------------------------------------------
(* What the claims speak of *)

UploadOps == {"upload", "adminUpload"}
DeleteOps == {"delete", "adminDelete"}
MutatingOps == {"addSubject"} \cup UploadOps \cup DeleteOps

ValidModules == {"1", "2", "3", "4", "5"}

BucketNames ==
    {"previousYearPapers", "iaPapers", "module1", "module2", "module3", "module4", "module5"}

BucketOf(content, b) ==
    IF b = "previousYearPapers" THEN content.previousYearPapers
    ELSE IF b = "iaPapers" THEN content.iaPapers
    ELSE content.notes[b]

(* The bucket the spec assigns to a content type and module. *)
TargetBucket(contentType, module) ==
    IF contentType = "previousYearPaper" THEN "previousYearPapers"
    ELSE IF contentType = "iaPaper" THEN "iaPapers"
    ELSE "module" \o module

ReqKey == ContentKey(req.department, req.semester, req.subject)
ReqSubjectsKey == SubjectsKey(req.department, req.semester)

(* getCatalog for the key of the request, before and after it was served. *)
CatalogBefore == GetCatalog(pre.kv, req.department, req.semester, req.subject)
CatalogAfter == GetCatalog(kv, req.department, req.semester, req.subject)

StoresUnchanged == kv = pre.kv /\ blobs = pre.blobs

Verified == req.auth \in {HAdmin, HOther}

\* C1: after a successful uploadFile of a previousYearPaper, an iaPaper or notes with
\* module 1..5, getCatalog for the same key has the returned FileRecord in the bucket
\* of that content type and module, appended after the records that were there, and
\* in no other bucket.
C1_UploadInBucket ==
    (/\ pc = "done"
     /\ req.op \in UploadOps
     /\ resp.status = 200
     /\ req.contentType \in {"previousYearPaper", "iaPaper", "notes"}
     /\ (req.contentType = "notes" => req.module \in ValidModules))
    => /\ Len(resp.body) = 1
       /\ LET fileRecord == resp.body[1]
              target == TargetBucket(req.contentType, req.module)
          IN  /\ BucketOf(CatalogAfter, target)
                    = Append(BucketOf(CatalogBefore, target), fileRecord)
              /\ \A b \in BucketNames \ {target} :
                    /\ ~Includes(BucketOf(CatalogAfter, b), fileRecord)
                    /\ BucketOf(CatalogAfter, b) = BucketOf(CatalogBefore, b)

C1_Witness ==
    /\ pc = "done"
    /\ req.op = "adminUpload"
    /\ resp.status = 200
    /\ req.contentType = "notes"
    /\ req.module = "5"
    /\ Len(CatalogAfter.notes["module5"]) = 2
    /\ CatalogAfter.notes["module5"][2] = resp.body[1]

(* seq without its i-th element *)
RemoveAt(seq, i) == [k \in 1..(Len(seq) - 1) |-> IF k < i THEN seq[k] ELSE seq[k + 1]]

(* content is other with exactly one record taken out of one bucket. *)
OneRecordRemoved(content, other) ==
    \E b \in BucketNames :
       /\ \E i \in 1..Len(BucketOf(other, b)) :
             BucketOf(content, b) = RemoveAt(BucketOf(other, b), i)
       /\ \A c \in BucketNames \ {b} : BucketOf(content, c) = BucketOf(other, c)

IdInCatalog(content, fileId) == \E b \in BucketNames : HasId(BucketOf(content, b), fileId)

\* C2: deleteFile with a fileId present in the addressed catalog removes exactly one
\* FileRecord (the record count decreases by exactly 1) and every other record keeps
\* its bucket, its position and its fields.
C2_DeleteRemovesExactlyOne ==
    (/\ pc = "done"
     /\ req.op = "adminDelete"
     /\ Verified
     /\ IdInCatalog(CatalogBefore, req.fileId))
    => /\ resp.status = 200
       /\ TotalRecords(kv) = TotalRecords(pre.kv) - 1
       /\ OneRecordRemoved(CatalogAfter, CatalogBefore)
       /\ \A k \in DOMAIN pre.kv \ {ReqKey} : kv[k] = pre.kv[k]

\* C3: deleteFile with a fileId that is in no bucket of the addressed catalog (or with
\* no catalog stored for the key), and DELETE /delete/:fileId with an id present in no
\* catalog, return 404 and leave the key-value store and the storage bucket as they
\* were.
C3_DeleteUnknownId ==
    /\ (/\ pc = "done"
        /\ req.op = "adminDelete"
        /\ Verified
        /\ ~IdInCatalog(CatalogBefore, req.fileId))
       => resp.status = 404 /\ StoresUnchanged
    /\ (/\ pc = "done"
        /\ req.op = "delete"
        /\ Verified
        /\ \A k \in KvContentItems(pre.kv) : ~IdInCatalog(pre.kv[k], req.fileId))
       => resp.status = 404 /\ StoresUnchanged

C3_Witness ==
    /\ pc = "done"
    /\ req.op = "adminDelete"
    /\ resp.status = 404
    /\ ~KvHas(pre.kv, ReqKey)
    /\ TotalRecords(pre.kv) > 0
    /\ \E k \in KvContentItems(pre.kv) : IdInCatalog(pre.kv[k], req.fileId)

\* C4: uploadFile with contentType = notes and no module fails validation, and leaves
\* the storage bucket, the subject list and the content catalog unchanged.
C4_NotesWithoutModule ==
    (/\ pc = "done"
     /\ req.op \in UploadOps
     /\ Verified
     /\ req.contentType = "notes"
     /\ req.module = "")
    => resp.status = 400 /\ StoresUnchanged

ZeroCatalog ==
    [previousYearPapers |-> <<>>, iaPapers |-> <<>>,
     notes |-> [k \in {"module1", "module2", "module3", "module4", "module5"} |-> <<>>]]

\* C5: for a key that was never written, getCatalog answers 200 with the zero-value
\* catalog (both lists empty, notes with exactly the keys module1..module5, each
\* empty) and leaves the store unchanged: the key is still absent.
C5_GetCatalogDefault ==
    (/\ pc = "done"
     /\ req.op = "getContent"
     /\ ~KvHas(pre.kv, ReqKey))
    => /\ resp.status = 200
       /\ resp.body = <<ZeroCatalog>>
       /\ StoresUnchanged
       /\ ~KvHas(kv, ReqKey)

C5_Witness ==
    /\ pc = "done"
    /\ req.op = "getContent"
    /\ ~KvHas(kv, ReqKey)
    /\ resp.body = <<ZeroCatalog>>
    /\ TotalRecords(kv) > 0

Occurrences(seq, x) == Cardinality({i \in 1..Len(seq) : seq[i] = x})

SubjectListBefore == KvGetOr(pre.kv, ReqSubjectsKey, <<>>)
SubjectListAfter == KvGetOr(kv, ReqSubjectsKey, <<>>)

\* C7: addSubject is idempotent: after a call the subject occurs exactly once in the
\* subject list, a list that was empty has length 1, and the same call again leaves
\* the list as the first call left it.
C7_AddSubjectIdempotent ==
    (pc = "done" /\ req.op = "addSubject" /\ resp.status = 200)
    => /\ Occurrences(SubjectListAfter, req.subject) = 1
       /\ SubjectListBefore = <<>> => SubjectListAfter = <<req.subject>>
       /\ Includes(SubjectListBefore, req.subject) => SubjectListAfter = SubjectListBefore
       /\ AddSubjectHandler(kv, blobs, now, req, "none").kv = kv
       /\ AddSubjectHandler(kv, blobs, now, req, "none").resp.status = 200

C7_Witness ==
    /\ pc = "done"
    /\ req.op = "addSubject"
    /\ resp.status = 200
    /\ Includes(SubjectListBefore, req.subject)
    /\ Len(SubjectListAfter) = 2

\* C8: a request that passed the auth gate and omits a required field (addSubject
\* without department, semester or subject; uploadFile without file, department,
\* semester, subject or contentType) is answered 400 and writes nothing to the
\* key-value store or the storage bucket.
C8_MissingField ==
    (/\ pc = "done"
     /\ Verified
     /\ \/ /\ req.op = "addSubject"
           /\ "" \in {req.department, req.semester, req.subject}
        \/ /\ req.op \in UploadOps
           /\ "" \in {req.file, req.department, req.semester, req.subject, req.contentType})
    => /\ resp.status = 400
       /\ resp.error = "Missing required fields"
       /\ StoresUnchanged

C8_Witness ==
    /\ pc = "done"
    /\ req.op = "adminUpload"
    /\ req.contentType = ""
    /\ req.file # ""
    /\ resp.status = 400
    /\ TotalRecords(kv) > 0

(* The storage write of the upload served last failed. *)
StorageWriteFailed ==
    /\ pc = "done"
    /\ req.op \in UploadOps
    /\ Verified
    /\ env.tPath > 0
    /\ env.fault = "storage" \/ FilePath(req, env.tPath) \in pre.blobs

\* C9: if the storage write fails during uploadFile the operation answers with an
\* error, without a second attempt, and neither the subject list nor the content
\* catalog is written: the key-value store is as it was before the call.
C9_StorageWriteFails ==
    StorageWriteFailed
    => /\ resp.status = 500
       /\ resp.body = <<>>
       /\ kv = pre.kv
       /\ blobs = pre.blobs

C9_Witness ==
    /\ StorageWriteFailed
    /\ env.fault = "storage"
    /\ req.op = "adminUpload"
    /\ ~Includes(SubjectListBefore, req.subject)
    /\ ~KvHas(pre.kv, ReqKey)
    /\ resp.status = 500

\* C10: after every successful uploadFile the subject is in the subject list of its
\* department and semester: appended if it was absent, the list unchanged if it was
\* there.
C10_UploadRegistersSubject ==
    (pc = "done" /\ req.op \in UploadOps /\ resp.status = 200)
    => /\ Includes(SubjectListAfter, req.subject)
       /\ Includes(SubjectListBefore, req.subject) => SubjectListAfter = SubjectListBefore
       /\ ~Includes(SubjectListBefore, req.subject)
          => SubjectListAfter = Append(SubjectListBefore, req.subject)

C10_Witness ==
    /\ pc = "done"
    /\ req.op = "upload"
    /\ resp.status = 200
    /\ SubjectListBefore # <<>>
    /\ ~Includes(SubjectListBefore, req.subject)
    /\ Len(SubjectListAfter) = 2

(* The DELETE /admin/delete request for the record the upload served last returned. *)
DeleteOfUploaded ==
    MkReq("adminDelete", HAdmin,
          [NoArgs EXCEPT !.department = req.department, !.semester = req.semester,
                         !.subject = req.subject, !.fileId = resp.body[1].id])

\* C11: round trip: a successful uploadFile (previousYearPaper, iaPaper or notes with
\* module 1..5) followed by deleteFile with the id of the returned FileRecord is
\* answered 200, makes getCatalog return the catalog it returned before the upload,
\* and removes the uploaded blob from the storage bucket.
C11_RoundTrip ==
    (/\ pc = "done"
     /\ req.op \in UploadOps
     /\ resp.status = 200
     /\ req.contentType \in {"previousYearPaper", "iaPaper", "notes"}
     /\ (req.contentType = "notes" => req.module \in ValidModules))
    => LET deleted == AdminDeleteHandler(kv, blobs, now, DeleteOfUploaded, "none") IN
       /\ deleted.resp.status = 200
       /\ GetCatalog(deleted.kv, req.department, req.semester, req.subject) = CatalogBefore
       /\ resp.body[1].path \notin deleted.blobs

-----------------------------------------------------------------------------
(* The server with upstream failures during a delete: storage.remove may   *)
(* answer with an error, a key-value call may throw.                        *)

DeleteFaults == {"none", "storage", "kvContentGet", "kvContentSet"}

(* The administrator's uploads of a paper or of notes of the last module. *)
PlainUploadArgs ==
    {a \in UploadArgsValid :
        \/ a.contentType = "previousYearPaper" /\ a.module = ""
        \/ a.contentType = "notes" /\ a.module = "5"}

PlainUpload == UploadOf({MkReq("adminUpload", HAdmin, a) : a \in PlainUploadArgs}, NoFaults)
AdminDeleteFailing ==
    AdminDeleteOf({MkReq("adminDelete", HAdmin, a) : a \in AdminDeleteArgs}, DeleteFaults)
DeleteFailing == DeleteOf({MkReq("delete", HAdmin, a) : a \in DeleteArgs}, DeleteFaults)

NextFaults ==
    \/ PlainUpload
    \/ AdminDeleteFailing
    \/ DeleteFailing
    \/ Respond

SpecFaults == Init /\ [][NextFaults]_vars

-----------------------------------------------------------------------------
(* What the claims about a delete that met a failure speak of *)

BucketOrder ==
    <<"previousYearPapers", "iaPapers", "module1", "module2", "module3", "module4", "module5">>

(* The first bucket, in the order of the search, that holds a record with the id. *)
FirstBucketWithId(content, fileId) ==
    BucketOrder[CHOOSE i \in 1..Len(BucketOrder) :
                   /\ HasId(BucketOf(content, BucketOrder[i]), fileId)
                   /\ \A k \in 1..(i - 1) : ~HasId(BucketOf(content, BucketOrder[k]), fileId)]

(* The places <<key, bucket, index>> of the file records the store holds. *)
RecordPlaces(store) ==
    {<<k, b, i>> \in KvContentItems(store) \X BucketNames \X (1..MaxFiles + 1) :
        i <= Len(BucketOf(store[k], b))}

RecordAt(store, place) == BucketOf(store[place[1]], place[2])[place[3]]

(* The number of records of the store whose path is path. *)
PathRefs(store, path) ==
    Cardinality({place \in RecordPlaces(store) : RecordAt(store, place).path = path})

(* The delete served last found a record with the id it was given. *)
RecordFound ==
    IF req.op = "adminDelete" THEN IdInCatalog(CatalogBefore, req.fileId)
    ELSE \E k \in KvContentItems(pre.kv) : IdInCatalog(pre.kv[k], req.fileId)

(* The key of the catalog it found the record in. *)
FoundKey ==
    IF req.op = "adminDelete" THEN ReqKey
    ELSE env.scan[CHOOSE i \in 1..Len(env.scan) :
                     /\ IdInCatalog(pre.kv[env.scan[i]], req.fileId)
                     /\ \A k \in 1..(i - 1) : ~IdInCatalog(pre.kv[env.scan[k]], req.fileId)]

FoundBucket == FirstBucketWithId(pre.kv[FoundKey], req.fileId)
FoundRecord == FirstWithId(BucketOf(pre.kv[FoundKey], FoundBucket), req.fileId)

DeleteMet(fault) ==
    /\ pc = "done"
    /\ req.op \in DeleteOps
    /\ Verified
    /\ env.fault = fault
    /\ RecordFound

-----------------------------------------------------------------------------
DownloadOps == {"download", "downloadGet"}

(* The path the download served last asked storage to sign, when it came to ask. *)
AskedPath == IF req.op = "download" THEN req.filePath ELSE DecodeURIComponent(req.filePath).value
AskedStorage == req.op = "download" \/ DecodeURIComponent(req.filePath).ok

\* C13: getDownloadUrl (POST /download and GET /download/:filePath) needs no bearer
\* token: it is never answered 401, and a request without a token for a stored object
\* is answered 200; the URL it answers with is the one storage signed for this call
\* (issued at the time of the call, never an earlier one) with expiry 3600 seconds;
\* and the key-value store and the storage bucket are as they were before the call.
C13_DownloadUrl ==
    (pc = "done" /\ req.op \in DownloadOps)
    => /\ StoresUnchanged
       /\ resp.status \in {200, 500}
       /\ (AskedStorage /\ AskedPath \in pre.blobs)
          => /\ resp.status = 200
             /\ resp.body = <<SignedUrl(AskedPath, 3600, env.tPath)>>
             /\ env.tPath = now
       /\ resp.status = 200 => resp.body[1].expiresIn = 3600

C13_Witness ==
    /\ pc = "done"
    /\ req.op = "downloadGet"
    /\ req.auth = HAbsent
    /\ resp.status = 200
    /\ resp.body[1].issuedAt = 2
    /\ resp.body[1].path = "CSE/3/Data Structures/previousYearPaper/1_exam.pdf"
    /\ TotalRecords(kv) = 2

-----------------------------------------------------------------------------
(* The catalogs that held a record with the id when the request arrived. *)
KeysWithId == {k \in KvContentItems(pre.kv) : IdInCatalog(pre.kv[k], req.fileId)}

(* deleteFile(department, semester, subject, fileId) addressed to the catalog of key. *)
AdminDeleteAt(key) ==
    LET a == CHOOSE k \in KeyArgs : ContentKey(k.department, k.semester, k.subject) = key IN
    AdminDeleteHandler(pre.kv, pre.blobs, now,
                       MkReq("adminDelete", req.auth, [a EXCEPT !.fileId = req.fileId]), "none")

\* C14: when the id occurs in at least one stored catalog, DELETE /delete/:fileId is
\* answered 200, modifies exactly one catalog, the first in the order of the scan
\* that holds the id, and removes the blob of the record found there; when the id
\* occurs in exactly one catalog, the key-value store and the storage bucket it
\* leaves are those deleteFile addressed to that catalog leaves.
C14_CompatDelete ==
    (/\ pc = "done"
     /\ req.op = "delete"
     /\ Verified
     /\ KeysWithId # {})
    => /\ resp.status = 200
       /\ DOMAIN kv = DOMAIN pre.kv
       /\ {k \in DOMAIN kv : kv[k] # pre.kv[k]} = {FoundKey}
       /\ blobs = pre.blobs \ {FoundRecord.path}
       /\ Cardinality(KeysWithId) = 1
          => /\ AdminDeleteAt(FoundKey).resp.status = 200
             /\ AdminDeleteAt(FoundKey).kv = kv
             /\ AdminDeleteAt(FoundKey).blobs = blobs

C14_Witness ==
    /\ pc = "done"
    /\ req.op = "delete"
    /\ resp.status = 200
    /\ Cardinality(KeysWithId) = 2
    /\ FoundKey = "content_CSE_3_Operating Systems"
    /\ FoundRecord.path \in pre.blobs
    /\ kv["content_CSE_3_Data Structures"] = pre.kv["content_CSE_3_Data Structures"]

-----------------------------------------------------------------------------
\* C15: FileRecord ids are unique: no two file records stored anywhere in the
\* key-value store (in the same bucket, in two buckets or in two catalogs) have
\* the same id.
C15_UniqueIds ==
    \A p, q \in RecordPlaces(kv) : RecordAt(kv, p).id = RecordAt(kv, q).id => p = q

-----------------------------------------------------------------------------
\* C16: every catalog in the key-value store has notes keys that are exactly
\* module1..module5, whatever module parameters the uploads were sent with.
C16_ModuleKeysFixed ==
    \A k \in KvContentItems(kv) :
       DOMAIN kv[k].notes = {"module1", "module2", "module3", "module4", "module5"}

C16_Witness ==
    /\ pc = "done"
    /\ req.op = "adminUpload"
    /\ req.contentType = "notes"
    /\ req.module = "6"
    /\ resp.status = 500
    /\ KvHas(kv, ReqKey)
    /\ Len(kv[ReqKey].notes["module5"]) = 1
    /\ FilePath(req, env.tPath) \in blobs

-----------------------------------------------------------------------------
(* The server with two requests in flight *)

ConcSubjectReqs == {MkReq("addSubject", HAdmin, a) : a \in SubjectArgsValid}
ConcUploadReqs == {MkReq("adminUpload", HAdmin, BaseUploadArgs)}
ConcDeleteReqs ==
    {MkReq("adminDelete", HAdmin,
           [NoArgs EXCEPT !.department = BaseUploadArgs.department,
                          !.semester = BaseUploadArgs.semester,
                          !.subject = BaseUploadArgs.subject, !.fileId = i]) : i \in FileIds}

RemoveFaults == {"none", "storage"}

CatalogWriters == {"adminUpload", "adminDelete"}

ProcKey(proc) == ContentKey(proc.req.department, proc.req.semester, proc.req.subject)

InFlight(proc) == proc.pc \notin {"idle", "done"}

Answer(proc, response) == [proc EXCEPT !.pc = "done", !.resp = response]

(* POST /subjects up to the answer of kv.get(subjectsKey). *)
StartAddSubject(p) ==
    /\ procs[p].pc = "idle"
    /\ \E r \in ConcSubjectReqs :
          LET proc == [IdleProc EXCEPT !.req = r]
              existingSubjects == KvGetOr(kv, SubjectsKey(r.department, r.semester), <<>>)
          IN  procs' = [procs EXCEPT ![p] =
                  IF ~RequireAuth(r.auth).ok THEN Answer(proc, RequireAuth(r.auth).resp)
                  ELSE IF MissingSubjectFields(r)
                  THEN Answer(proc, Response(400, "Missing required fields", "", <<>>))
                  ELSE IF SubjectAbsent(existingSubjects, r.subject)
                  THEN [proc EXCEPT !.pc = "setSubjects", !.subjects = existingSubjects]
                  ELSE Answer(proc, Response(200, "", "", <<>>))]
    /\ UNCHANGED <<kv, blobs, now, pc, req, resp, pre, env, app, view>>

(* POST /admin/upload up to the answer of storage.upload. *)
StartUpload(p) ==
    /\ procs[p].pc = "idle"
    /\ Cardinality(blobs) < MaxFiles
    /\ \E r \in ConcUploadReqs, tPath \in now..MaxClock :
          LET proc == [IdleProc EXCEPT !.req = r]
              filePath == FilePath(r, tPath)
          IN  IF ~RequireAuth(r.auth).ok
              THEN /\ tPath = now
                   /\ procs' = [procs EXCEPT ![p] = Answer(proc, RequireAuth(r.auth).resp)]
                   /\ UNCHANGED <<blobs, now>>
              ELSE IF MissingUploadFields(r)
              THEN /\ tPath = now
                   /\ procs' = [procs EXCEPT ![p] =
                         Answer(proc, Response(400, "Missing required fields", "", <<>>))]
                   /\ UNCHANGED <<blobs, now>>
              ELSE IF StorageUploadError(blobs, filePath, "none")
              THEN /\ procs' = [procs EXCEPT ![p] =
                         Answer(proc, Response(500, "Failed to upload file", "", <<>>))]
                   /\ now' = tPath
                   /\ UNCHANGED blobs
              ELSE /\ procs' = [procs EXCEPT ![p] =
                         [proc EXCEPT !.pc = "getSubjects", !.file.path = filePath]]
                   /\ blobs' = blobs \cup {filePath}
                   /\ now' = tPath
    /\ UNCHANGED <<kv, pc, req, resp, pre, env, app, view>>

(* The upload's kv.get(subjectsKey). *)
ReadSubjects(p) ==
    /\ procs[p].pc = "getSubjects"
    /\ LET r == procs[p].req
           existingSubjects == KvGetOr(kv, SubjectsKey(r.department, r.semester), <<>>)
       IN  procs' = [procs EXCEPT ![p] =
               IF SubjectAbsent(existingSubjects, r.subject)
               THEN [@ EXCEPT !.pc = "setSubjects", !.subjects = existingSubjects]
               ELSE [@ EXCEPT !.pc = "getContent"]]
    /\ UNCHANGED <<kv, blobs, now, pc, req, resp, pre, env, app, view>>

(* existingSubjects.push(subject); kv.set(subjectsKey, existingSubjects) *)
WriteSubjects(p) ==
    /\ procs[p].pc = "setSubjects"
    /\ LET r == procs[p].req IN
       /\ kv' = KvSet(kv, SubjectsKey(r.department, r.semester),
                      Append(procs[p].subjects, r.subject))
       /\ procs' = [procs EXCEPT ![p] =
             IF r.op = "addSubject" THEN Answer(@, Response(200, "", "", <<>>))
             ELSE [@ EXCEPT !.pc = "getContent"]]
    /\ UNCHANGED <<blobs, now, pc, req, resp, pre, env, app, view>>

(* The upload's kv.get(contentKey) and the push of the new record; a      *)
(* content is added to while it holds fewer than MaxFiles records.          *)
ReadContent(p) ==
    /\ procs[p].pc = "getContent"
    /\ RecordCount(KvGetOr(kv, ProcKey(procs[p]), EmptyContent)) < MaxFiles
    /\ \E tId \in now..MaxClock :
          LET r == procs[p].req
              existingContent == KvGetOr(kv, ProcKey(procs[p]), EmptyContent)
              fileRecord == FileRecord(r, procs[p].file.path, tId)
              pushed == PushRecord(existingContent, r.contentType, r.module, fileRecord)
          IN  /\ procs' = [procs EXCEPT ![p] =
                    IF ~pushed.ok THEN Answer(@, UploadError)
                    ELSE [@ EXCEPT !.pc = "setContent", !.read = existingContent,
                                   !.content = pushed.content, !.file = fileRecord]]
              /\ now' = tId
    /\ UNCHANGED <<kv, blobs, pc, req, resp, pre, env, app, view>>

(* WriteCatalog putting the handler's change on the content that is stored *)
(* when it writes, not on the content it read.                              *)
WriteCatalogMerging(store, proc) ==
    LET current == KvGetOr(store, ProcKey(proc), EmptyContent) IN
    KvSet(store, ProcKey(proc),
          IF proc.req.op = "adminUpload"
          THEN PushRecord(current, proc.req.contentType, proc.req.module, proc.file).content
          ELSE RemoveFile(current, proc.req.fileId).content)

(* kv.set(contentKey, existingContent): the whole content the handler holds. *)
WriteCatalog(store, proc) == KvSet(store, ProcKey(proc), proc.content)

WriteContent(p) ==
    /\ procs[p].pc = "setContent"
    /\ kv' = WriteCatalog(kv, procs[p])
    /\ procs' = [procs EXCEPT ![p] =
          [Answer(@, Response(200, "", "",
                              IF @.req.op = "adminUpload" THEN <<@.file>> ELSE <<>>))
             EXCEPT !.order = IF \E q \in ProcIds \ {p} : procs[q].order > 0 THEN 2 ELSE 1]]
    /\ UNCHANGED <<blobs, now, pc, req, resp, pre, env, app, view>>

(* DELETE /admin/delete up to the end of the search in the content kv.get returned. *)
StartDelete(p) ==
    /\ procs[p].pc = "idle"
    /\ \E r \in ConcDeleteReqs :
          LET proc == [IdleProc EXCEPT !.req = r]
              contentKey == ContentKey(r.department, r.semester, r.subject)
          IN  IF ~RequireAuth(r.auth).ok
              THEN procs' = [procs EXCEPT ![p] = Answer(proc, RequireAuth(r.auth).resp)]
              ELSE IF ~KvHas(kv, contentKey)
              THEN procs' = [procs EXCEPT ![p] =
                      Answer(proc, Response(404, "Content not found", "", <<>>))]
              ELSE LET removed == RemoveFile(kv[contentKey], r.fileId) IN
                   procs' = [procs EXCEPT ![p] =
                      IF ~removed.found
                      THEN Answer(proc, Response(404, "File not found", "", <<>>))
                      ELSE [proc EXCEPT !.pc = "remove", !.read = kv[contentKey],
                                        !.content = removed.content,
                                        !.file = removed.file]]
    /\ UNCHANGED <<kv, blobs, now, pc, req, resp, pre, env, app, view>>

(* storage.remove([fileToDelete.path]): an error is only logged. *)
RemoveObject(p) ==
    /\ procs[p].pc = "remove"
    /\ \E fault \in RemoveFaults :
          /\ blobs' = IF fault = "storage" THEN blobs ELSE blobs \ {procs[p].file.path}
          /\ procs' = [procs EXCEPT ![p] = [@ EXCEPT !.pc = "setContent", !.fault = fault]]
    /\ UNCHANGED <<kv, now, pc, req, resp, pre, env, app, view>>

(* The response is sent and the handler is gone. *)
Finish(p) ==
    /\ procs[p].pc = "done"
    /\ procs' = [procs EXCEPT ![p] = IdleProc]
    /\ UNCHANGED <<kv, blobs, now, pc, req, resp, pre, env, app, view>>

NextConc ==
    \E p \in ProcIds :
       \/ StartAddSubject(p)
       \/ StartUpload(p)
       \/ ReadSubjects(p)
       \/ WriteSubjects(p)
       \/ ReadContent(p)
       \/ WriteContent(p)
       \/ StartDelete(p)
       \/ RemoveObject(p)
       \/ Finish(p)

SpecConc == Init /\ [][NextConc]_vars

-----------------------------------------------------------------------------
AllSubjectsKeys == {SubjectsKey(d, s) : d \in Departments, s \in Semesters}

SubjectListOf(store, key) == KvGetOr(store, key, <<>>)

NoSubjectTwice(list) == \A i, j \in 1..Len(list) : list[i] = list[j] => i = j

(* Every subject of old is in new, and two subjects of old are in new in the *)
(* order they have in old.                                                   *)
SubjectsKept(old, new) ==
    /\ \A i \in 1..Len(old) : Includes(new, old[i])
    /\ \A i, j \in 1..Len(old) :
          i < j => \E a, b \in 1..Len(new) : a < b /\ new[a] = old[i] /\ new[b] = old[j]

\* C17: the subject list is append-only and free of duplicates across every
\* interleaving of addSubject and uploadFile calls: a step of the server never takes
\* a stored subject out of its list, never changes the order of the stored subjects,
\* and never leaves a list in which a subject occurs twice.
C17_SubjectsAppendOnly ==
    [][\A key \in AllSubjectsKeys :
          /\ SubjectsKept(SubjectListOf(kv, key), SubjectListOf(kv', key))
          /\ NoSubjectTwice(SubjectListOf(kv', key))]_vars

-----------------------------------------------------------------------------
(* after is before with the change of the handler proc and nothing else: its *)
(* record appended to the bucket of its content type, or the records with    *)
(* its fileId filtered out of the first bucket that had one.                 *)
OnlyChangeOf(proc, before, after) ==
    LET b == IF proc.req.op = "adminUpload"
             THEN TargetBucket(proc.req.contentType, proc.req.module)
             ELSE FirstBucketWithId(before, proc.req.fileId)
    IN  /\ BucketOf(after, b) =
              IF proc.req.op = "adminUpload" THEN Append(BucketOf(before, b), proc.file)
              ELSE SelectSeq(BucketOf(before, b), LAMBDA f : f.id # proc.req.fileId)
        /\ \A c \in BucketNames \ {b} : BucketOf(after, c) = BucketOf(before, c)

(* content holds the record of proc as often as the content proc read did: *)
(* its append, or its removal, is not in content.                           *)
ChangeLost(proc, content) ==
    \A b \in BucketNames :
       Occurrences(BucketOf(content, b), proc.file) = Occurrences(BucketOf(proc.read, b), proc.file)

(* Both handlers answered 200 to a write of the same catalog, first read the *)
(* same content and then wrote, p before q; their records differ and q's    *)
(* change is not about the id of p's record.                                 *)
WroteAfterSameRead(p, q) ==
    /\ p # q
    /\ \A x \in {p, q} :
          /\ procs[x].pc = "done"
          /\ procs[x].resp.status = 200
          /\ procs[x].req.op \in CatalogWriters
    /\ ProcKey(procs[p]) = ProcKey(procs[q])
    /\ procs[p].order = 1
    /\ procs[q].order = 2
    /\ procs[p].read = procs[q].read
    /\ procs[p].file # procs[q].file
    /\ procs[q].req.op = "adminDelete" => procs[q].req.fileId # procs[p].file.id

\* C18: catalog writes are an unguarded read-modify-write of the whole value: when
\* two concurrent admin writes to the same catalog (upload or delete, each) have both
\* read the content before either writes it, both are answered 200 and the stored
\* catalog is the one of the later writer: the content they read with the later
\* writer's change only, the append or the removal of the other being lost.
C18_LastWriteWins ==
    \A p, q \in ProcIds :
       WroteAfterSameRead(p, q)
       => /\ kv[ProcKey(procs[q])] = procs[q].content
          /\ OnlyChangeOf(procs[q], procs[p].read, kv[ProcKey(procs[q])])
          /\ ChangeLost(procs[p], kv[ProcKey(procs[q])])
          /\ ~OnlyChangeOf(procs[p], procs[q].content, kv[ProcKey(procs[q])])

C18_Witness ==
    /\ WroteAfterSameRead(1, 2)
    /\ procs[1].req.op = "adminUpload"
    /\ procs[2].req.op = "adminDelete"
    /\ procs[1].resp.body = <<procs[1].file>>
    /\ procs[1].file.path \in blobs
    /\ TotalRecords(kv) = 0

-----------------------------------------------------------------------------
(* Every file record in the key-value store has its object in the storage bucket. *)
NoDanglingRecord == \A place \in RecordPlaces(kv) : RecordAt(kv, place).path \in blobs

\* C19: under any interleaving of uploads and deletes and any failure of
\* storage.remove, every file record stored in a catalog has a path whose blob is in
\* the storage bucket; stated for the states in which no handler is in flight, where
\* no delete is between its storage.remove and its kv.set.
C19_NoDanglingRecord == (\A p \in ProcIds : ~InFlight(procs[p])) => NoDanglingRecord

-----------------------------------------------------------------------------
\* C20: no compensation of a partial failure: when a delete (either route) found the
\* record, storage.remove succeeded and the kv.set of the catalog failed, the answer
\* is the generic 500, the blob is gone from the storage bucket, and the key-value
\* store is as it was: the catalog still holds the record.
C20_NoCompensation ==
    DeleteMet("kvContentSet")
    => /\ resp.status = 500
       /\ resp.error = "Internal server error during file deletion"
       /\ FoundRecord.path \notin blobs
       /\ blobs = pre.blobs \ {FoundRecord.path}
       /\ kv = pre.kv
       /\ Includes(BucketOf(kv[FoundKey], FoundBucket), FoundRecord)

C20_Witness ==
    /\ DeleteMet("kvContentSet")
    /\ req.op = "adminDelete"
    /\ resp.status = 500
    /\ FoundRecord.path \in pre.blobs
    /\ FoundRecord.path \notin blobs
    /\ IdInCatalog(CatalogAfter, req.fileId)

-----------------------------------------------------------------------------
(* The buckets of content that hold a record with the id. *)
BucketsWithId(content, fileId) == {b \in BucketNames : HasId(BucketOf(content, b), fileId)}

\* C21: a delete (either route) that finds the id searches previousYearPapers, then
\* iaPapers, then the notes modules in key order, and stops at the first bucket that
\* holds the id: the records with the id are taken out of that bucket only, every
\* later bucket, those holding the same id included, is left as it was, and the blob
\* removed is the one at the path of the first matching record of that bucket.
C21_FirstBucketOnly ==
    (/\ pc = "done"
     /\ req.op \in DeleteOps
     /\ Verified
     /\ RecordFound)
    => /\ resp.status = 200
       /\ BucketOf(kv[FoundKey], FoundBucket)
             = SelectSeq(BucketOf(pre.kv[FoundKey], FoundBucket), LAMBDA f : f.id # req.fileId)
       /\ \A b \in BucketNames \ {FoundBucket} :
             BucketOf(kv[FoundKey], b) = BucketOf(pre.kv[FoundKey], b)
       /\ BucketsWithId(kv[FoundKey], req.fileId)
             = BucketsWithId(pre.kv[FoundKey], req.fileId) \ {FoundBucket}
       /\ blobs = pre.blobs \ {FoundRecord.path}

C21_Witness ==
    /\ pc = "done"
    /\ req.op = "adminDelete"
    /\ resp.status = 200
    /\ BucketsWithId(CatalogBefore, req.fileId) = {"iaPapers", "module5"}
    /\ BucketsWithId(CatalogAfter, req.fileId) = {"module5"}
    /\ CatalogBefore.iaPapers[1].path \notin blobs
    /\ CatalogAfter.notes["module5"][1].path \in blobs

-----------------------------------------------------------------------------
(* The server stopping inside an upload handler *)

(* Where the process can stop: before storage.upload has stored the object, *)
(* after it, after the subject registration (kv.set of the subject list),   *)
(* and after the kv.set of the content, before the response is sent.        *)
CrashPoints ==
    {"crashBeforeUpload", "crashAfterUpload", "crashAfterSubjects", "crashAfterContent"}

(* UploadCrashed with the content written before the subject is registered. *)
UploadCrashedContentFirst(store, bl, t, r, tPath, tId, point) ==
    LET filePath == FilePath(r, tPath)
        bl1 == bl \cup {filePath}
        contentKey == ContentKey(r.department, r.semester, r.subject)
        existingContent == KvGetOr(store, contentKey, EmptyContent)
        pushed == PushRecord(existingContent, r.contentType, r.module,
                             FileRecord(r, filePath, tId))
        written == KvSet(store, contentKey, pushed.content)
    IN  IF point = "crashBeforeUpload" THEN Out(store, bl, tPath, NoResp)
        ELSE IF point = "crashAfterUpload" THEN Out(store, bl1, tPath, NoResp)
        ELSE IF point = "crashAfterSubjects" THEN Out(written, bl1, tId, NoResp)
        ELSE Out(RegisterSubject(written, r.department, r.semester, r.subject, "none").kv,
                 bl1, tId, NoResp)

(* The stores an upload that would have answered 200 leaves when the process *)
(* stops at point: the calls awaited before the point have taken effect, the *)
(* later ones were never made, and no response is sent.                      *)
UploadCrashed(store, bl, t, r, tPath, tId, point) ==
    LET filePath == FilePath(r, tPath)
        bl1 == bl \cup {filePath}
        reg == RegisterSubject(store, r.department, r.semester, r.subject, "none")
        contentKey == ContentKey(r.department, r.semester, r.subject)
        existingContent == KvGetOr(reg.kv, contentKey, EmptyContent)
        pushed == PushRecord(existingContent, r.contentType, r.module,
                             FileRecord(r, filePath, tId))
    IN  IF point = "crashBeforeUpload" THEN Out(store, bl, tPath, NoResp)
        ELSE IF point = "crashAfterUpload" THEN Out(store, bl1, tPath, NoResp)
        ELSE IF point = "crashAfterSubjects" THEN Out(reg.kv, bl1, tPath, NoResp)
        ELSE Out(KvSet(reg.kv, contentKey, pushed.content), bl1, tId, NoResp)

(* The uploads the process stops in: of a paper to either subject. *)
CrashUploadReqs ==
    {MkReq("adminUpload", HAdmin, a) :
        a \in {x \in UploadArgsValid : x.contentType = "previousYearPaper" /\ x.module = ""}}

UploadCrash ==
    /\ pc = "idle"
    /\ Cardinality(blobs) < MaxFiles
    /\ TotalRecords(kv) < MaxFiles
    /\ \E r \in CrashUploadReqs, tPath \in now..MaxClock, point \in CrashPoints :
          \E tId \in tPath..MaxClock :
             LET out == UploadCrashed(kv, blobs, now, r, tPath, tId, point) IN
             /\ UploadHandler(kv, blobs, now, r, tPath, tId, "none").resp.status = 200
             /\ out.now = tId
             /\ Serve(r, RequireAuth(r.auth).resp.user, Env(point, tPath, tId, <<>>), out)

NextCrash ==
    \/ UploadCrash
    \/ PlainUpload
    \/ AdminDeleteFailing
    \/ Respond

SpecCrash == Init /\ [][NextCrash]_vars

(* The process stopped inside the upload served last, whose subject was not *)
(* registered when it arrived.                                               *)
CrashedUpload ==
    /\ pc = "done"
    /\ req.op \in UploadOps
    /\ env.fault \in CrashPoints
    /\ ~Includes(SubjectListBefore, req.subject)

(* What a stop at point leaves of the upload served last. *)
LeftAt(point) == UploadCrashed(pre.kv, pre.blobs, now, req, env.tPath, env.tId, point)

SubjectRegisteredIn(store) == Includes(KvGetOr(store, ReqSubjectsKey, <<>>), req.subject)
CatalogWrittenIn(store) ==
    GetCatalog(store, req.department, req.semester, req.subject) # CatalogBefore

\* C22 (as stated): both intermediate states are among those a crash inside a single
\* uploadFile leaves: at some point the subject is registered with the catalog
\* unwritten, and at some point the catalog is written with the subject unregistered.
C22_BothIntermediateStates ==
    CrashedUpload
    => /\ \E point \in CrashPoints :
             SubjectRegisteredIn(LeftAt(point).kv) /\ ~CatalogWrittenIn(LeftAt(point).kv)
       /\ \E point \in CrashPoints :
             CatalogWrittenIn(LeftAt(point).kv) /\ ~SubjectRegisteredIn(LeftAt(point).kv)

\* C22 (amended): the two key-value writes of uploadFile are not atomic and are made
\* in a fixed order, subject list first: a crash between them leaves the subject
\* registered with the catalog unwritten, and no crash inside a single uploadFile
\* leaves the catalog written with the subject unregistered; a crash after both
\* leaves the stores of the upload that answered 200.
C22_SubjectBeforeCatalog ==
    CrashedUpload
    => /\ kv = LeftAt(env.fault).kv
       /\ CatalogWrittenIn(kv) => SubjectRegisteredIn(kv)
       /\ \A point \in CrashPoints :
             CatalogWrittenIn(LeftAt(point).kv) => SubjectRegisteredIn(LeftAt(point).kv)
       /\ SubjectRegisteredIn(LeftAt("crashAfterSubjects").kv)
       /\ ~CatalogWrittenIn(LeftAt("crashAfterSubjects").kv)
       /\ LET served == UploadHandler(pre.kv, pre.blobs, now, req, env.tPath, env.tId, "none") IN
          /\ LeftAt("crashAfterContent").kv = served.kv
          /\ LeftAt("crashAfterContent").blobs = served.blobs

C22_Witness ==
    /\ CrashedUpload
    /\ env.fault = "crashAfterSubjects"
    /\ resp.status = 0
    /\ SubjectListAfter = Append(SubjectListBefore, req.subject)
    /\ Len(SubjectListAfter) = 2
    /\ ~KvHas(kv, ReqKey)
    /\ FilePath(req, env.tPath) \in blobs

-----------------------------------------------------------------------------
(* The client in the browser *)

ServerVars == <<kv, blobs, now, pc, req, resp, pre, env, procs>>

(* The view after a step of App: a change of what App renders unmounts the *)
(* view and mounts a new one, whose effect runs on mount.                   *)
Render(a) ==
    /\ app' = a
    /\ view' = IF Rendered(a) = Rendered(app) THEN view
               ELSE SelectionEffect(ViewOf(Rendered(a)))
    /\ UNCHANGED ServerVars

SessionOutcomes == {"session", "noSession", "rejects", "timeout"}
AccessTokens == {"tokAdmin", ""}
LoginOutcomes == {"session", "error", "throws"}
LogoutOutcomes == {"resolves", "rejects", "timeout"}
FetchOutcomes == {"ok", "notOk", "throws"}

SessionSettled ==
    /\ app.session = "pending"
    /\ \E outcome \in SessionOutcomes, accessToken \in AccessTokens :
          /\ outcome # "session" => accessToken = ""
          /\ Render(CheckAdminSession(app, outcome, accessToken))

ShowAdminLogin ==
    /\ Rendered(app) = "student"
    /\ Render([app EXCEPT !.currentPage = "admin-login", !.ended = "showAdminLogin"])

(* AdminLogin's handleLogin up to signInWithPassword. *)
LoginSubmitted ==
    /\ Rendered(app) = "admin-login"
    /\ app.logins = 0
    /\ Render([app EXCEPT !.logins = 1, !.ended = ""])

(* The rest of handleLogin: onLogin(access_token) when there is a session. *)
LoginSettled ==
    /\ app.logins > 0
    /\ \E outcome \in LoginOutcomes :
          Render(IF outcome = "session"
                 THEN [HandleAdminLogin(app, "tokAdmin") EXCEPT !.logins = @ - 1]
                 ELSE [app EXCEPT !.logins = @ - 1, !.ended = ""])

(* handleAdminLogout up to Promise.race. *)
LogoutClicked ==
    /\ Rendered(app) = "admin-dashboard"
    /\ app.logouts < MaxLogouts
    /\ Render([app EXCEPT !.logouts = @ + 1, !.ended = ""])

LogoutSettled ==
    /\ app.logouts > 0
    /\ \E outcome \in LogoutOutcomes : Render(HandleAdminLogout(app, outcome))

Mounted == view.kind \in {"student", "admin"}

ViewStep(v) ==
    /\ view' = v
    /\ UNCHANGED app
    /\ UNCHANGED ServerVars

SelectDepartment ==
    /\ Mounted
    /\ view.issued < MaxFetches
    /\ \E department \in ClientDepartments \ {view.selectedDepartment} :
          ViewStep(SetSelectedDepartment(view, department))

SelectSemester ==
    /\ Mounted
    /\ view.issued < MaxFetches
    /\ \E semester \in ClientSemesters \ {view.selectedSemester} :
          ViewStep(SetSelectedSemester(view, semester))

(* The subjects offered are those of the selected department. *)
SelectSubject ==
    /\ Mounted
    /\ view.issued < MaxFetches
    /\ \E i \in 1..Len(GetSubjects(view.selectedDepartment)) :
          /\ GetSubjects(view.selectedDepartment)[i] # view.selectedSubject
          /\ ViewStep(SetSelectedSubject(view, GetSubjects(view.selectedDepartment)[i]))

SelectContentType ==
    /\ view.kind = "admin"
    /\ \E contentType \in ClientContentTypes \ {view.selectedContentType} :
          ViewStep([view EXCEPT !.selectedContentType = contentType])

(* The module is offered while the content type is notes. *)
SelectModule ==
    /\ view.kind = "admin"
    /\ view.selectedContentType = "notes"
    /\ \E module \in ClientModules \ {view.selectedModule} :
          ViewStep([view EXCEPT !.selectedModule = module])

FetchAnswered ==
    /\ Mounted
    /\ \E f \in view.pending, outcome \in FetchOutcomes, data \in ServedCatalogs :
          /\ outcome # "ok" => data = EmptyContent
          /\ ViewStep(FetchSettled(view, f, outcome, data))

(* A file is chosen: the input is disabled while uploading or while one of *)
(* the four selections is missing.                                          *)
FileChosen ==
    /\ view.kind = "admin"
    /\ ~view.uploading
    /\ AllSelected(view)
    /\ view.selectedContentType # ""
    /\ view.ops = {}
    /\ view.issued < MaxFetches
    /\ ViewStep(HandleFileUpload(view))

(* The delete button of a file of the displayed catalog. *)
DeleteClicked ==
    /\ view.kind = "admin"
    /\ view.contentStructure.set
    /\ Len(view.contentStructure.data.previousYearPapers) > 0
    /\ view.ops = {}
    /\ view.issued < MaxFetches
    /\ ViewStep(HandleDeleteFile(view))

OpAnswered ==
    /\ view.kind = "admin"
    /\ \E o \in view.ops, outcome \in FetchOutcomes : ViewStep(OpSettled(view, o, outcome))

NextClient ==
    \/ SessionSettled
    \/ ShowAdminLogin
    \/ LoginSubmitted
    \/ LoginSettled
    \/ LogoutClicked
    \/ LogoutSettled
    \/ SelectDepartment
    \/ SelectSemester
    \/ SelectSubject
    \/ SelectContentType
    \/ SelectModule
    \/ FetchAnswered
    \/ FileChosen
    \/ DeleteClicked
    \/ OpAnswered

SpecClient == Init /\ [][NextClient]_vars

-----------------------------------------------------------------------------
(* The fetches of the catalog a step of the client issues. *)
NewFetches == view'.pending \ view.pending

SelectionChanged == Selection(view') # Selection(view)

(* The step issues exactly one fetch, for the triple t. *)
OneFetchFor(t) == \E f \in NewFetches : NewFetches = {f} /\ f.of = t

(* What a change of one of the three selections does, in both views. *)
FetchOnSelection ==
    /\ (SelectionChanged /\ AllSelected(view')) => OneFetchFor(Selection(view'))
    /\ (SelectionChanged /\ ~AllSelected(view'))
       => NewFetches = {} /\ view'.contentStructure = NullContent

\* C23 (as stated): in both views a catalog fetch is issued exactly when department,
\* semester and subject are all set: a change of one of the three selections that
\* leaves all three non-empty issues one fetch for the current triple, a change that
\* leaves one of them empty issues none and resets the displayed catalog to null, and
\* no fetch is issued at any other time.
C23_FetchExactlyOnSelection ==
    [][/\ FetchOnSelection
       /\ ~SelectionChanged => NewFetches = {}]_vars

\* C23 (amended): a change of one of the three selections that leaves all three
\* non-empty issues one fetch for the current triple and a change that leaves one of
\* them empty issues none and resets the displayed catalog to null; the student view
\* issues no fetch at any other time, and the admin view only the refresh after an
\* upload or a delete that was answered ok, for the triple that was selected when
\* that upload or delete was started.
C23_FetchOnSelectionOrRefresh ==
    [][/\ FetchOnSelection
       /\ ~SelectionChanged
          => \/ NewFetches = {}
             \/ /\ view.kind = "admin"
                /\ \E o \in view.ops : o \notin view'.ops /\ OneFetchFor(o.of)]_vars

C23_Witness ==
    /\ view.kind = "admin"
    /\ AllSelected(view)
    /\ view.ops = {}
    /\ \E f, g \in view.pending :
          /\ f.by = "effect" /\ f.of = Selection(view)
          /\ g.by = "refresh" /\ g.of # Selection(view)

-----------------------------------------------------------------------------
(* The step is the answer to the fetch f of the mounted view. *)
Answers(f) == f \in view.pending /\ f \notin view'.pending /\ app' = app

\* C24: a fetch carries no generation token and is never cancelled: when the
\* selection changed from the triple A to the triple B while the fetch for A was in
\* flight and the response for A arrives after the response of a later fetch was
\* displayed, A's response is still awaited, and when it arrives the displayed
\* catalog becomes A's while the selection stays B.
C24_StaleResponseDisplayed ==
    [][\A f \in view.pending :
          (/\ Answers(f)
           /\ view.contentStructure.set
           /\ view.contentStructure.gen > f.gen
           /\ f.of # Selection(view))
          => /\ view'.contentStructure.set
             /\ view'.contentStructure.of = f.of
             /\ view'.contentStructure.gen = f.gen
             /\ Selection(view') = Selection(view)
             /\ view'.contentStructure.of # Selection(view')]_vars

C24_Witness ==
    /\ view.kind = "student"
    /\ view.issued = 2
    /\ view.pending = {}
    /\ view.contentStructure.set
    /\ view.contentStructure.gen = 1
    /\ view.contentStructure.of = Triple("CSE", "3", "Mathematics")
    /\ Selection(view) = Triple("CSE", "3", "Data Structures")
    /\ ~view.loading

-----------------------------------------------------------------------------
(* The subject is one of those getSubjects offers for the department. *)
SubjectOffered(department, subject) ==
    \E i \in 1..Len(GetSubjects(department)) : GetSubjects(department)[i] = subject

\* C25: selecting a department changes only the selected department: semester and
\* subject (and, in the admin view, content type and module) are left as they were,
\* and when all three are set the catalog is fetched for the new department with the
\* old semester and subject, also when that subject is not one of the subjects of
\* the new department.
C25_DepartmentOnly ==
    [][(/\ app' = app
        /\ view'.selectedDepartment # view.selectedDepartment)
       => /\ view'.selectedSemester = view.selectedSemester
          /\ view'.selectedSubject = view.selectedSubject
          /\ view'.selectedContentType = view.selectedContentType
          /\ view'.selectedModule = view.selectedModule
          /\ AllSelected(view')
             => \E f \in view'.pending \ view.pending :
                   f.of = Triple(view'.selectedDepartment, view.selectedSemester,
                                 view.selectedSubject)]_vars

C25_Witness ==
    /\ view.kind = "admin"
    /\ view.selectedDepartment = "ECE"
    /\ view.selectedSubject = "Data Structures"
    /\ view.selectedContentType = "notes"
    /\ view.selectedModule = "1"
    /\ ~SubjectOffered(view.selectedDepartment, view.selectedSubject)
    /\ \E f \in view.pending : f.gen = 2 /\ f.of = Triple("ECE", "3", "Data Structures")

-----------------------------------------------------------------------------
(* StudentPortal shows the catalog: contentStructure && selectedSubject && !loading *)
CatalogDisplayed ==
    view.contentStructure.set /\ view.selectedSubject # "" /\ ~view.loading

\* C29: in the student view loading is true whenever a catalog fetch is in flight:
\* loading = false implies that no fetch is pending, so a catalog is never displayed
\* while a fetch is still outstanding.
C29_LoadingWhilePending ==
    view.kind = "student"
    => /\ ~view.loading => view.pending = {}
       /\ CatalogDisplayed => view.pending = {}

-----------------------------------------------------------------------------
(* The client with its timers: Promise.race with the 5 s timeout settles   *)
(* checkAdminSession and every handleAdminLogout, whatever the identity     *)
(* provider does.                                                            *)
SpecClientLive ==
    Init /\ [][NextClient]_vars /\ WF_vars(SessionSettled) /\ WF_vars(LogoutSettled)

DashboardGuard == app.currentPage = "admin-dashboard" /\ app.adminToken # NullToken

\* C30: the admin dashboard is rendered only in states where currentPage is
\* admin-dashboard and adminToken is not null; handleAdminLogout always ends, and
\* with adminToken = null and currentPage = student, whether signOut resolves,
\* rejects or runs into the timeout; checkAdminSession always ends, and with
\* isLoading = false, whether getSession resolves, rejects or runs into the timeout.
C30_SessionState ==
    /\ [](/\ Rendered(app) = "admin-dashboard" => DashboardGuard
          /\ view.kind = "admin" => DashboardGuard
          /\ app.ended = "handleAdminLogout"
             => app.adminToken = NullToken /\ app.currentPage = "student"
          /\ app.ended = "checkAdminSession" => ~app.isLoading
          /\ app.session = "settled" => ~app.isLoading)
    /\ (app.session = "pending" ~> (app.ended = "checkAdminSession" /\ ~app.isLoading))
    /\ (app.logouts > 0 ~> app.ended = "handleAdminLogout")

C30_Witness ==
    /\ app.ended = "handleAdminLogout"
    /\ app.adminToken = NullToken
    /\ app.currentPage = "student"
    /\ app.logins = 1
    /\ app.logouts = 0
    /\ view.kind = "student"

-----------------------------------------------------------------------------
(* The server serving uploads and deletes one at a time, with a key-value  *)
(* store and a storage bucket that answer every call.                       *)
NextSeq ==
    \/ UploadWith("upload", NoFaults)
    \/ UploadWith("adminUpload", NoFaults)
    \/ AdminDelete
    \/ Delete
    \/ Respond

SpecSeq == Init /\ [][NextSeq]_vars

\* C26: referential integrity in failure-free sequential runs: in every reachable
\* state each blob of the storage bucket is the path of exactly one file record of
\* the key-value store, and the path of each file record names a blob of the bucket,
\* whatever contentType and module the uploads were sent with.
C26_ReferentialIntegrity ==
    /\ \A path \in blobs : PathRefs(kv, path) = 1
    /\ NoDanglingRecord

\* C27: an uploadFile call that is answered with an error (400 or 500) has written
\* nothing: the storage bucket, the subject list and the content catalog are as they
\* were before the call, for every contentType and module, a notes upload with a
\* module outside 1..5 included.
C27_UploadErrorWritesNothing ==
    (/\ pc = "done"
     /\ req.op \in UploadOps
     /\ Verified
     /\ resp.status \in {400, 500})
    => /\ blobs = pre.blobs
       /\ SubjectListAfter = SubjectListBefore
       /\ CatalogAfter = CatalogBefore
       /\ kv = pre.kv

(* The places <<bucket, index>> of the catalog that hold the record. *)
PlacesOf(content, fileRecord) ==
    {<<b, i>> \in BucketNames \X (1..MaxFiles + 1) :
        i <= Len(BucketOf(content, b)) /\ BucketOf(content, b)[i] = fileRecord}

\* C28: whenever uploadFile answers 200 with a fileRecord, requests being served one
\* at a time, that fileRecord is stored in exactly one bucket of the catalog
\* persisted for (department, semester, subject), for every contentType that passes
\* the required-field check.
C28_RecordInOneBucket ==
    (/\ pc = "done"
     /\ req.op \in UploadOps
     /\ resp.status = 200)
    => /\ Len(resp.body) = 1
       /\ KvHas(kv, ReqKey)
       /\ Cardinality(PlacesOf(CatalogAfter, resp.body[1])) = 1

====
